---- MODULE Spec2Model ----
(***************************************************************************)
(* Model of autorriculum's profile tooling: PDFDataExtractor               *)
(* (parseExtractedText, mergeProfileData) and the data it handles.         *)
(*                                                                         *)
(* Strings that the program computes on (text, lines, names, keys) are     *)
(* sequences of one-character strings, so that toLowerCase, trim, split,   *)
(* includes and the regular expressions are computed character by          *)
(* character.  Objects (JS records and maps) are functions whose DOMAIN is *)
(* the set of keys present; an absent optional field is a key outside the  *)
(* DOMAIN.  Object equality is deep equality, without key order.           *)
(***************************************************************************)
EXTENDS Naturals, Sequences, FiniteSets, TLC

(***************************************************************************)
(* Characters and the String methods the source uses                       *)
(***************************************************************************)
UpperChars ==
    <<"A","B","C","D","E","F","G","H","I","J","K","L","M","N","O","P","Q",
      "R","S","T","U","V","W","X","Y","Z","Ç","Õ","Ã","Ê">>

LowerChars ==
    <<"a","b","c","d","e","f","g","h","i","j","k","l","m","n","o","p","q",
      "r","s","t","u","v","w","x","y","z","ç","õ","ã","ê">>

Range(s) == { s[i] : i \in 1..Len(s) }

\* [A-Z], [a-z], \d, \w and \s of a JS regular expression (ASCII only)
AZ == { UpperChars[i] : i \in 1..26 }

az == { LowerChars[i] : i \in 1..26 }

Digit == {"0","1","2","3","4","5","6","7","8","9"}

WordCh == AZ \cup az \cup Digit \cup {"_"}

Space == {" ", "\t", "\n", "\r"}

ToLowerChar ==
    [c \in Range(UpperChars) |->
        LowerChars[CHOOSE i \in 1..Len(UpperChars) : UpperChars[i] = c]]

LowerCh(c) == IF c \in DOMAIN ToLowerChar THEN ToLowerChar[c] ELSE c

\* String.prototype.toLowerCase
toLowerCase(s) == [i \in 1..Len(s) |-> LowerCh(s[i])]

\* String.prototype.trim
RECURSIVE TrimStart(_)
TrimStart(s) ==
    IF Len(s) > 0 /\ Head(s) \in Space THEN TrimStart(Tail(s)) ELSE s

RECURSIVE TrimEnd(_)
TrimEnd(s) ==
    IF Len(s) > 0 /\ s[Len(s)] \in Space
    THEN TrimEnd(SubSeq(s, 1, Len(s) - 1)) ELSE s

trim(s) == TrimEnd(TrimStart(s))

\* whether sub occurs in s at position i
StartsAt(s, sub, i) ==
    /\ i + Len(sub) - 1 <= Len(s)
    /\ \A j \in 1..Len(sub) : s[i + j - 1] = sub[j]

\* String.prototype.includes
includes(s, sub) == \E i \in 1..(Len(s) + 1) : StartsAt(s, sub, i)

\* Array.prototype.includes
Contains(arr, x) == \E i \in 1..Len(arr) : arr[i] = x

\* Array.prototype.indexOf, 1-based (0 when absent)
RECURSIVE IndexFrom(_, _, _)
IndexFrom(arr, x, i) ==
    IF i > Len(arr) THEN 0
    ELSE IF arr[i] = x THEN i ELSE IndexFrom(arr, x, i + 1)

indexOf(arr, x) == IndexFrom(arr, x, 1)

\* text.split('\n'): the pieces between the k-th and the (k+1)-th newline
split(s) ==
    LET nl == { i \in 1..Len(s) : s[i] = "\n" }
        n  == Cardinality(nl)
        at(k) == IF k = 0 THEN 0
                 ELSE IF k = n + 1 THEN Len(s) + 1
                 ELSE CHOOSE i \in nl : Cardinality({ j \in nl : j < i }) = k - 1
    IN [k \in 1..(n + 1) |-> SubSeq(s, at(k - 1) + 1, at(k) - 1)]

\* lines joined by '\n': the text whose split('\n') they are
RECURSIVE JoinLines(_)
JoinLines(ls) ==
    IF Len(ls) = 0 THEN <<>>
    ELSE IF Len(ls) = 1 THEN ls[1]
    ELSE ls[1] \o <<"\n">> \o JoinLines(Tail(ls))

(***************************************************************************)
(* JS regular expressions.  A regular expression is a sequence of atoms;   *)
(* Match gives the end of the first match a backtracking matcher finds     *)
(* from position i (the position after the last matched character), or 0.  *)
(***************************************************************************)
Inf == 9999

Atom(k, s, r, rs, min, max) ==
    [k |-> k, s |-> s, r |-> r, rs |-> rs, min |-> min, max |-> max]

Cls(S)  == Atom("set", S, <<>>, <<>>, 0, 0)          \* [...]

NCls(S) == Atom("nset", S, <<>>, <<>>, 0, 0)         \* [^...]

Rep(r, min, max)  == Atom("rep", {}, r, <<>>, min, max)     \* r{min,max}

LazyRep(r, min, max) == Atom("lazy", {}, r, <<>>, min, max) \* r{min,max}?

Alt(rs) == Atom("alt", {}, <<>>, rs, 0, 0)           \* (?:r1|r2|...)

Look(rs) == Atom("look", {}, <<>>, rs, 0, 0)         \* (?=r1|r2|...)

Bol == Atom("bol", {}, <<>>, <<>>, 0, 0)             \* ^

Eol == Atom("eol", {}, <<>>, <<>>, 0, 0)             \* $

Lit(str) == [i \in 1..Len(str) |-> Cls({str[i]})]    \* literal characters

Plus(S) == <<Rep(<<Cls(S)>>, 1, Inf)>>               \* [...]+

Star(S) == <<Rep(<<Cls(S)>>, 0, Inf)>>               \* [...]*

Opt(r) == <<Rep(r, 0, 1)>>                           \* r?

Dot == NCls({"\n", "\r"})                            \* .

ToUpperChar ==
    [c \in Range(LowerChars) |->
        UpperChars[CHOOSE i \in 1..Len(LowerChars) : LowerChars[i] = c]]

UpperCh(c) == IF c \in DOMAIN ToUpperChar THEN ToUpperChar[c] ELSE c

\* a character against a class; with the i flag, in either case
InCls(S, c, ci) ==
    c \in S \/ (ci /\ (LowerCh(c) \in S \/ UpperCh(c) \in S))

Pred(n) == IF n > 0 THEN n - 1 ELSE 0

\* a character against a class atom
AtomOk(a, c, ci) ==
    IF a.k = "set" THEN InCls(a.s, c, ci) ELSE ~InCls(a.s, c, ci)

IsClass(r) == Len(r) = 1 /\ r[1].k \in {"set", "nset"}

\* how many characters from position i on are in the class, at most max
RECURSIVE RunLen(_, _, _, _, _)
RunLen(a, s, i, ci, max) ==
    IF max = 0 \/ i > Len(s) THEN 0
    ELSE IF ~AtomOk(a, s[i], ci) THEN 0
    ELSE 1 + RunLen(a, s, i + 1, ci, max - 1)

RECURSIVE Match(_, _, _, _)
RECURSIVE MatchAlt(_, _, _, _, _, _)
RECURSIVE Shrink(_, _, _, _, _, _)
RECURSIVE Grow(_, _, _, _, _, _)
Match(re, s, i, ci) ==
    IF Len(re) = 0 THEN i
    ELSE
      LET a    == Head(re)
          rest == Tail(re)
      IN
      CASE a.k \in {"set", "nset"} ->
             IF i <= Len(s) /\ AtomOk(a, s[i], ci)
             THEN Match(rest, s, i + 1, ci) ELSE 0
        [] a.k = "rep" /\ IsClass(a.r) ->
             Shrink(rest, s, i, ci, RunLen(a.r[1], s, i, ci, a.max), a.min)
        [] a.k = "lazy" /\ IsClass(a.r) ->
             Grow(rest, s, i, ci, a.min, RunLen(a.r[1], s, i, ci, a.max))
        [] a.k = "rep" /\ ~IsClass(a.r) ->
             LET more == IF a.max > 0
                         THEN Match(a.r \o <<Rep(a.r, Pred(a.min), a.max - 1)>>
                                        \o rest, s, i, ci)
                         ELSE 0
             IN IF more # 0 THEN more
                ELSE IF a.min = 0 THEN Match(rest, s, i, ci) ELSE 0
        [] a.k = "lazy" /\ ~IsClass(a.r) ->
             LET more == IF a.max > 0
                         THEN Match(a.r \o <<LazyRep(a.r, Pred(a.min), a.max - 1)>>
                                        \o rest, s, i, ci)
                         ELSE 0
                 stop == IF a.min = 0 THEN Match(rest, s, i, ci) ELSE 0
             IN IF stop # 0 THEN stop ELSE more
        [] a.k = "alt" -> MatchAlt(a.rs, 1, rest, s, i, ci)
        [] a.k = "look" ->
             IF MatchAlt(a.rs, 1, <<>>, s, i, ci) # 0
             THEN Match(rest, s, i, ci) ELSE 0
        [] a.k = "bol" -> IF i = 1 THEN Match(rest, s, i, ci) ELSE 0
        [] a.k = "eol" -> IF i = Len(s) + 1 THEN Match(rest, s, i, ci) ELSE 0

\* the alternatives of a group, in order
MatchAlt(rs, n, rest, s, i, ci) ==
    IF n > Len(rs) THEN 0
    ELSE LET e == Match(rs[n] \o rest, s, i, ci)
         IN IF e # 0 THEN e ELSE MatchAlt(rs, n + 1, rest, s, i, ci)

\* a greedy class repetition: the longest run first, then one less, down to min
Shrink(rest, s, i, ci, k, min) ==
    IF k < min THEN 0
    ELSE LET e == Match(rest, s, i + k, ci)
         IN IF e # 0 THEN e ELSE IF k = 0 THEN 0
            ELSE Shrink(rest, s, i, ci, k - 1, min)

\* a lazy class repetition: the shortest run first, then one more, up to n
Grow(rest, s, i, ci, k, n) ==
    IF k > n THEN 0
    ELSE LET e == Match(rest, s, i + k, ci)
         IN IF e # 0 THEN e ELSE Grow(rest, s, i, ci, k + 1, n)

\* RegExp.prototype.test, and a truthy String.prototype.match
test(re, s, ci) == \E i \in 1..(Len(s) + 1) : Match(re, s, i, ci) # 0

\* String.prototype.match with the g flag: the matches, left to right. ends[j]
\* is the end of the match that starts at j (0: none); the search resumes at the
\* end of the last match (one further after an empty match)
RECURSIVE MatchAllFrom(_, _, _)
MatchAllFrom(ends, s, i) ==
    LET starts == { j \in i..(Len(s) + 1) : ends[j] # 0 }
    IN IF starts = {} THEN <<>>
       ELSE LET j == CHOOSE m \in starts : \A o \in starts : m <= o
            IN <<SubSeq(s, j, ends[j] - 1)>>
                 \o MatchAllFrom(ends, s, IF ends[j] = j THEN j + 1 ELSE ends[j])

matchAll(re, s, ci) ==
    LET ends == [j \in 1..(Len(s) + 1) |-> Match(re, s, j, ci)]
    IN MatchAllFrom(ends, s, 1)

certificationKeywords ==
    <<
      <<"c","e","r","t","i","f","i","c","a","t","i","o","n">>,
      <<"c","e","r","t","i","f","i","c","a","t","e">>,
      <<"c","e","r","t","i","f","i","e","d">>,
      <<"c","o","u","r","s","e">>,
      <<"t","r","a","i","n","i","n","g">>,
      <<"c","e","r","t","i","f","i","c","a","ç","ã","o">>,
      <<"c","e","r","t","i","f","i","c","a","d","o">>,
      <<"c","u","r","s","o">>,
      <<"t","r","e","i","n","a","m","e","n","t","o">>
    >>

certificationProviders ==
    <<
      <<"a","w","s">>,
      <<"m","i","c","r","o","s","o","f","t">>,
      <<"g","o","o","g","l","e">>,
      <<"o","r","a","c","l","e">>,
      <<"c","i","s","c","o">>,
      <<"c","o","m","p","t","i","a">>,
      <<"c","o","u","r","s","e","r","a">>,
      <<"u","d","e","m","y">>,
      <<"e","d","x">>,
      <<"l","i","n","k","e","d","i","n"," ","l","e","a","r","n","i","n","g">>,
      <<"p","l","u","r","a","l","s","i","g","h","t">>,
      <<"f","i","g","m","a">>,
      <<"a","d","o","b","e">>,
      <<"s","a","l","e","s","f","o","r","c","e">>,
      <<"v","m","w","a","r","e">>,
      <<"r","e","d"," ","h","a","t">>
    >>

programmingLanguages ==
    <<
      <<"j","a","v","a","s","c","r","i","p","t">>,
      <<"p","y","t","h","o","n">>,
      <<"j","a","v","a">>,
      <<"c","+","+">>,
      <<"c","#">>,
      <<"r","u","b","y">>,
      <<"g","o">>,
      <<"r","u","s","t">>,
      <<"t","y","p","e","s","c","r","i","p","t">>,
      <<"p","h","p">>,
      <<"s","w","i","f","t">>,
      <<"k","o","t","l","i","n">>,
      <<"s","c","a","l","a">>,
      <<"r">>,
      <<"m","a","t","l","a","b">>,
      <<"h","t","m","l">>,
      <<"c","s","s">>,
      <<"s","q","l">>,
      <<"b","a","s","h">>,
      <<"s","h","e","l","l">>
    >>

skillsKeywords ==
    <<
      <<"d","o","c","k","e","r">>,
      <<"k","u","b","e","r","n","e","t","e","s">>,
      <<"a","w","s">>,
      <<"a","z","u","r","e">>,
      <<"g","c","p">>,
      <<"l","i","n","u","x">>,
      <<"w","i","n","d","o","w","s">>,
      <<"g","i","t">>,
      <<"j","e","n","k","i","n","s">>,
      <<"t","e","r","r","a","f","o","r","m">>,
      <<"a","n","s","i","b","l","e">>,
      <<"m","o","n","g","o","d","b">>,
      <<"p","o","s","t","g","r","e","s","q","l">>,
      <<"m","y","s","q","l">>,
      <<"r","e","d","i","s">>,
      <<"e","l","a","s","t","i","c","s","e","a","r","c","h">>,
      <<"n","g","i","n","x">>,
      <<"a","p","a","c","h","e">>
    >>


(***************************************************************************)
(* parseExtractedText: the regular expressions of the source               *)
(***************************************************************************)
\* /[\w\.-]+@[\w\.-]+\.\w+/g
emailRegex ==
    Plus(WordCh \cup {".", "-"}) \o Lit(<<"@">>)
      \o Plus(WordCh \cup {".", "-"}) \o Lit(<<".">>) \o Plus(WordCh)

DigitRep(n, m) == <<Rep(<<Cls(Digit)>>, n, m)>>                \* \d{n,m}

\* /(?:\+?[1-9]\d{1,14}|\(\d{3}\)\s?\d{3}-?\d{4}|\d{3}[-.]?\d{3}[-.]?\d{4})/g
phoneRegex ==
    <<Alt(<<
        Opt(Lit(<<"+">>)) \o <<Cls(Digit \ {"0"})>> \o DigitRep(1, 14),
        Lit(<<"(">>) \o DigitRep(3, 3) \o Lit(<<")">>) \o Opt(<<Cls(Space)>>)
          \o DigitRep(3, 3) \o Opt(Lit(<<"-">>)) \o DigitRep(4, 4),
        DigitRep(3, 3) \o Opt(<<Cls({"-", "."})>>) \o DigitRep(3, 3)
          \o Opt(<<Cls({"-", "."})>>) \o DigitRep(4, 4)
    >>)>>

\* /^(19|20)\d{2}$/
yearRegex ==
    <<Bol, Alt(<<Lit(<<"1","9">>), Lit(<<"2","0">>)>>)>> \o DigitRep(2, 2) \o <<Eol>>

\* /https?:\/\/[^\s]+/g
urlRegex ==
    Lit(<<"h","t","t","p">>) \o Opt(Lit(<<"s">>)) \o Lit(<<":","/","/">>)
      \o <<Rep(<<NCls(Space)>>, 1, Inf)>>

\* /linkedin\.com\/in\/[\w-]+/g
linkedinRegex ==
    Lit(<<"l","i","n","k","e","d","i","n",".","c","o","m","/","i","n","/">>)
      \o Plus(WordCh \cup {"-"})

\* /github\.com\/[\w-]+/g
githubRegex ==
    Lit(<<"g","i","t","h","u","b",".","c","o","m","/">>) \o Plus(WordCh \cup {"-"})

\* the eight unwantedPatterns, all with the i flag
unwantedPatterns ==
    <<
      \* /^page\s+\d+\s+of\s+\d+$/i
      <<Bol>> \o Lit(<<"p","a","g","e">>) \o Plus(Space) \o Plus(Digit) \o Plus(Space)
        \o Lit(<<"o","f">>) \o Plus(Space) \o Plus(Digit) \o <<Eol>>,
      \* /^certifications?$/i
      <<Bol>> \o Lit(<<"c","e","r","t","i","f","i","c","a","t","i","o","n">>)
        \o Opt(Lit(<<"s">>)) \o <<Eol>>,
      \* /^certificações?$/i
      <<Bol>> \o Lit(<<"c","e","r","t","i","f","i","c","a","ç","õ","e">>)
        \o Opt(Lit(<<"s">>)) \o <<Eol>>,
      \* /^\d+\s*(months?|meses?)$/i
      <<Bol>> \o Plus(Digit) \o Star(Space)
        \o <<Alt(<<Lit(<<"m","o","n","t","h">>) \o Opt(Lit(<<"s">>)),
                   Lit(<<"m","e","s","e">>) \o Opt(Lit(<<"s">>))>>)>> \o <<Eol>>,
      \* /^languages?$/i
      <<Bol>> \o Lit(<<"l","a","n","g","u","a","g","e">>) \o Opt(Lit(<<"s">>)) \o <<Eol>>,
      \* /^idiomas?$/i
      <<Bol>> \o Lit(<<"i","d","i","o","m","a">>) \o Opt(Lit(<<"s">>)) \o <<Eol>>,
      \* /^contato$/i
      <<Bol>> \o Lit(<<"c","o","n","t","a","t","o">>) \o <<Eol>>,
      \* /^principais\s+competências$/i
      <<Bol>> \o Lit(<<"p","r","i","n","c","i","p","a","i","s">>) \o Plus(Space)
        \o Lit(<<"c","o","m","p","e","t","ê","n","c","i","a","s">>) \o <<Eol>>
    >>

\* /^[A-Z][a-z]+\s+[A-Z][a-z]+$/, the "Name pattern" of the exit check
namePattern ==
    <<Bol, Cls(AZ)>> \o Plus(az) \o Plus(Space) \o <<Cls(AZ)>> \o Plus(az)
      \o <<Eol>>

\* /[a-z]+\s*\d+/i
coursePattern == Plus(az) \o Star(Space) \o Plus(Digit)

\* /^[A-Z][a-z]+(?:\s+[A-Z][a-z]*)*.*$/
titleCasePattern ==
    <<Bol, Cls(AZ)>> \o Plus(az)
      \o <<Rep(Plus(Space) \o <<Cls(AZ)>> \o Star(az), 0, Inf)>>
      \o <<Rep(<<Dot>>, 0, Inf), Eol>>

\* /^\d+$/
onlyDigits == <<Bol>> \o Plus(Digit) \o <<Eol>>

\* /^[a-z\s]+$/
allLowercase == <<Bol>> \o Plus(az \cup Space) \o <<Eol>>

\* /^[a-z]/
startsLower == <<Bol, Cls(az)>>

\* /^(certificat(e|ion|ed)|course|training):\s*/i
labelPrefix ==
    <<Bol,
      Alt(<<Lit(<<"c","e","r","t","i","f","i","c","a","t">>)
              \o <<Alt(<<Lit(<<"e">>), Lit(<<"i","o","n">>), Lit(<<"e","d">>)>>)>>,
            Lit(<<"c","o","u","r","s","e">>),
            Lit(<<"t","r","a","i","n","i","n","g">>)>>)>>
      \o Lit(<<":">>) \o Star(Space)

\* /certifica[tç][õo]es?[\s:]*([^\n]+(?:\n[^\n]+)*?)(?=\n\s*\n|\n[A-Z]|$)/gi
certSectionRegex ==
    Lit(<<"c","e","r","t","i","f","i","c","a">>) \o <<Cls({"t", "ç"}), Cls({"õ", "o"})>>
      \o Lit(<<"e">>) \o Opt(Lit(<<"s">>)) \o Star(Space \cup {":"})
      \o <<Rep(<<NCls({"\n"})>>, 1, Inf)>>
      \o <<LazyRep(Lit(<<"\n">>) \o <<Rep(<<NCls({"\n"})>>, 1, Inf)>>, 0, Inf)>>
      \o <<Look(<<Lit(<<"\n">>) \o Star(Space) \o Lit(<<"\n">>),
                  <<Cls({"\n"}), Cls(AZ)>>,
                  <<Eol>>>>)>>

S_certification == <<"c","e","r","t","i","f","i","c","a","t","i","o","n">>

S_certificacao == <<"c","e","r","t","i","f","i","c","a","ç","ã","o">>

S_Science == <<"S","c","i","e","n","c","e">>

(***************************************************************************)
(* JS objects                                                              *)
(***************************************************************************)
EmptyObject == <<>>

Has(obj, k) == k \in DOMAIN obj

\* obj[k] = v
Put(obj, k, v) == [x \in DOMAIN obj \cup {k} |-> IF x = k THEN v ELSE obj[x]]

\* { ...a, ...b }
Spread(a, b) ==
    [x \in DOMAIN a \cup DOMAIN b |-> IF x \in DOMAIN b THEN b[x] ELSE a[x]]

(***************************************************************************)
(* parseExtractedText                                                      *)
(***************************************************************************)
VARIABLES
    text,            \* the text handed to parseExtractedText
    lines,           \* text.split('\n'), blanked in place by the look-ahead
    index,           \* the line the forEach callback runs on next (1-based)
    inCertSection,   \* the section state of the line scan
    certifications,  \* the certifications map being built: key -> entry
    certLog,         \* history: which pass recorded which key, from which line
    contactMatches,  \* the concatenated match list that contactInfo filters
    extractedData,   \* the fragment: parseExtractedText's result, merge's input
    currentProfile,  \* mergeProfileData's first argument
    mergedProfile,   \* mergeProfileData(currentProfile, extractedData)
    remerged,        \* mergeProfileData(mergedProfile, extractedData)
    pc,              \* position in the operation under way
    stored,          \* the file data/profile.json
    backups,         \* the backup files: timestamp suffix -> content
    now,             \* the latest value Date.now() returned
    run,             \* per process: the run under way and its local values
    writes,          \* history: one entry per writeFileSync of profile.json
    started          \* number of runs started so far

vars == <<text, lines, index, inCertSection, certifications, certLog,
          contactMatches, extractedData, currentProfile, mergedProfile,
          remerged, pc, stored, backups, now, run, writes, started>>

storeVars == <<stored, backups, now, run, writes, started>>

parseVars == <<text, lines, index, inCertSection, certifications, certLog,
               contactMatches>>

mergeVars == <<currentProfile, mergedProfile, remerged>>

\* num.replace(/\D/g, '')
Digits(num) == SelectSeq(num, LAMBDA c : c \in Digit)

\* a faulty variant of PhoneOk: it admits every match
PhoneOkAny(num) == TRUE

\* the filter of potentialPhones
PhoneOk(num) ==
    LET digits == Digits(num)
    IN /\ Len(digits) >= 10
       /\ Len(digits) <= 15
       /\ ~test(yearRegex, digits, FALSE)
       /\ ~(Len(digits) = 2 \/ Len(digits) = 4)

Prefixed(ms) == [i \in 1..Len(ms) |-> <<"h","t","t","p","s",":","/","/">> \o ms[i]]

\* [...emails, ...phones, ...urls, ...linkedin, ...github] before the filter
ContactMatches(t) ==
    LET emails == matchAll(emailRegex, t, FALSE)
        phones == SelectSeq(matchAll(phoneRegex, t, FALSE), PhoneOk)
        urls   == matchAll(urlRegex, t, FALSE)
    IN emails \o phones \o urls
         \o Prefixed(matchAll(linkedinRegex, t, FALSE))
         \o Prefixed(matchAll(githubRegex, t, FALSE))

\* a faulty variant of ContactInfo: it filters nothing
ContactInfoUnfiltered(arr) == arr

\* .filter((item, index, arr) => arr.indexOf(item) === index)
RECURSIVE KeepFirstFrom(_, _)
KeepFirstFrom(arr, i) ==
    IF i > Len(arr) THEN <<>>
    ELSE (IF indexOf(arr, arr[i]) = i THEN <<arr[i]>> ELSE <<>>)
           \o KeepFirstFrom(arr, i + 1)

ContactInfo(arr) == KeepFirstFrom(arr, 1)

\* the entry stored under 'computer_engineering_upe'
UpeEntry ==
    [degree |-> "Bachelor of Engineering", field |-> "Computer Engineering",
     institution |-> "Universidade de Pernambuco (UPE)",
     location |-> "Recife, Pernambuco, Brasil", start_date |-> "April 2024",
     end_date |-> "December 2028", status |-> "in_progress",
     extracted_from_pdf |-> TRUE]

UpeKey ==
    <<"c","o","m","p","u","t","e","r","_","e","n","g","i","n","e","e","r","i",
      "n","g","_","u","p","e">>

EducationData(textLower) ==
    IF /\ includes(textLower, <<"e","n","g","e","n","h","a","r","i","a"," ",
                                "d","a"," ","c","o","m","p","u","t","a","ç",
                                "ã","o">>)
       /\ includes(textLower, <<"u","n","i","v","e","r","s","i","d","a","d",
                                "e"," ","d","e"," ","p","e","r","n","a","m",
                                "b","u","c","o">>)
    THEN Put(EmptyObject, UpeKey, UpeEntry)
    ELSE EmptyObject

\* certName.toLowerCase().replace(/[^a-z0-9]/g, '_')
DeriveKey(name) ==
    [i \in 1..Len(name) |->
        IF LowerCh(name[i]) \in az \cup Digit THEN LowerCh(name[i]) ELSE "_"]

CertEntry(name) ==
    [name |-> name, type |-> "course_completion", extracted_from_pdf |-> TRUE]

\* a faulty variant of AddCert: the later candidate replaces the entry
AddCertOverwrite(certs, name) == Put(certs, DeriveKey(name), CertEntry(name))

\* if (!certifications[certKey]) certifications[certKey] = {...}
AddCert(certs, name) ==
    IF Has(certs, DeriveKey(name)) THEN certs
    ELSE Put(certs, DeriveKey(name), CertEntry(name))

Some(list, s) == \E i \in 1..Len(list) : includes(s, list[i])

\* header detection of the line scan
IsHeaderLine(lowerLine) ==
    includes(lowerLine, S_certification) \/ includes(lowerLine, S_certificacao)

\* the exit signal of the line scan
IsExitLine(lowerLine, originalLine) ==
    \/ includes(lowerLine, <<"e","x","p","e","r","i","e","n","c","e">>)
    \/ includes(lowerLine, <<"e","x","p","e","r","i","ê","n","c","i","a">>)
    \/ includes(lowerLine, <<"e","d","u","c","a","t","i","o","n">>)
    \/ includes(lowerLine, <<"f","o","r","m","a","ç","ã","o">>)
    \/ includes(lowerLine, <<"g","a","b","r","i","e","l"," ","b","o","r","g","e","s">>)
    \/ test(namePattern, originalLine, FALSE)

IsUnwanted(originalLine) ==
    \E p \in 1..Len(unwantedPatterns) : test(unwantedPatterns[p], originalLine, TRUE)

HasCertKeyword(lowerLine) == Some(certificationKeywords, lowerLine)

HasProvider(lowerLine) == Some(certificationProviders, lowerLine)

HasCoursePattern(lowerLine) == test(coursePattern, lowerLine, TRUE)

\* hasCertKeyword || hasProvider || (hasCoursePattern && isTitleCase)
HasSignal(lowerLine, originalLine) ==
    \/ HasCertKeyword(lowerLine)
    \/ HasProvider(lowerLine)
    \/ /\ HasCoursePattern(lowerLine)
       /\ test(titleCasePattern, originalLine, FALSE)

\* a faulty variant of SectionAfter: it never leaves the section
SectionAfterNoExit(section, lowerLine, originalLine) == section

\* lines 574-581: the section state after the exit check
SectionAfter(section, lowerLine, originalLine) ==
    IF section /\ IsExitLine(lowerLine, originalLine) THEN FALSE ELSE section

\* a faulty variant of ContextualMatch: it does not look at the section state
ContextualMatchAnywhere(section, originalLine) ==
    /\ Len(originalLine) > 3
    /\ ~test(onlyDigits, originalLine, FALSE)
    /\ ~test(allLowercase, originalLine, FALSE)

ContextualMatch(section, originalLine) ==
    /\ section
    /\ Len(originalLine) > 3
    /\ ~test(onlyDigits, originalLine, FALSE)
    /\ ~test(allLowercase, originalLine, FALSE)

\* the look-ahead: whether lines[index + 1] continues the candidate
IsContinuation(ls, i) ==
    /\ i + 1 <= Len(ls)
    /\ LET nextLine == trim(ls[i + 1])
       IN /\ Len(nextLine) > 0
          /\ Len(nextLine) < 15
          /\ (test(startsLower, nextLine, FALSE) \/ nextLine = S_Science)

\* certName.replace(/^(certificat(e|ion|ed)|course|training):\s*/i, '')
StripLabel(name) ==
    LET e == Match(labelPrefix, name, 1, TRUE)
    IN IF e = 0 THEN name ELSE SubSeq(name, e, Len(name))

IsGeneric(certName) ==
    LET l == toLowerCase(certName)
    IN \/ Contains(certificationKeywords, l)
       \/ l = S_certification \o <<"s">>
       \/ l = <<"c","e","r","t","i","f","i","c","a","ç","õ","e","s">>
       \/ l = toLowerCase(S_Science)

\* one run of the forEach callback on lines[i]: the new lines, section state
\* and certifications, and the name recorded (<<>> when none is)
ScanStep(ls, i, section, certs) ==
    LET lowerLine    == trim(toLowerCase(ls[i]))
        originalLine == trim(ls[i])
        same   == [lines |-> ls, section |-> section, certs |-> certs,
                   name |-> <<>>]
        after  == SectionAfter(section, lowerLine, originalLine)
        cont   == IsContinuation(ls, i)
        joined == IF cont THEN originalLine \o <<" ">> \o trim(ls[i + 1])
                  ELSE originalLine
        certName == StripLabel(joined)
        accept == Len(certName) > 3 /\ ~IsGeneric(certName)
    IN IF Len(lowerLine) < 3 THEN same
       ELSE IF IsHeaderLine(lowerLine) THEN [same EXCEPT !.section = TRUE]
       ELSE IF IsUnwanted(originalLine) THEN [same EXCEPT !.section = after]
       ELSE IF ~(HasSignal(lowerLine, originalLine)
                   \/ ContextualMatch(after, originalLine))
            THEN [same EXCEPT !.section = after]
       ELSE [lines   |-> IF cont THEN [ls EXCEPT ![i + 1] = <<>>] ELSE ls,
             section |-> after,
             certs   |-> IF accept THEN AddCert(certs, certName) ELSE certs,
             name    |-> IF accept /\ ~Has(certs, DeriveKey(certName))
                         THEN certName ELSE <<>>]

\* the block pass: the names it tries to add, in order
RECURSIVE SectionNames(_)
SectionNames(sectionLines) ==
    IF Len(sectionLines) = 0 THEN <<>>
    ELSE (IF Len(trim(Head(sectionLines))) > 3
          THEN <<trim(Head(sectionLines))>> ELSE <<>>)
           \o SectionNames(Tail(sectionLines))

RECURSIVE BlockNames(_)
BlockNames(certSections) ==
    IF Len(certSections) = 0 THEN <<>>
    ELSE SectionNames(Tail(split(Head(certSections))))
           \o BlockNames(Tail(certSections))

RECURSIVE AddAll(_, _)
AddAll(certs, names) ==
    IF Len(names) = 0 THEN certs
    ELSE AddAll(AddCert(certs, Head(names)), Tail(names))

\* the log entries of the names of the block pass that are new
RECURSIVE BlockLog(_, _)
BlockLog(certs, names) ==
    IF Len(names) = 0 THEN <<>>
    ELSE (IF Has(certs, DeriveKey(Head(names))) THEN <<>>
          ELSE <<[pass |-> "block", line |-> 0, key |-> DeriveKey(Head(names)),
                  name |-> Head(names)]>>)
           \o BlockLog(AddCert(certs, Head(names)), Tail(names))

\* lang.charAt(0).toUpperCase() + lang.slice(1)
Capitalize(s) == IF Len(s) = 0 THEN s ELSE <<UpperCh(s[1])>> \o Tail(s)

\* the keywords the text holds, capitalized, in list order
RECURSIVE Found(_, _)
Found(list, textLower) ==
    IF Len(list) = 0 THEN <<>>
    ELSE (IF includes(textLower, Head(list)) THEN <<Capitalize(Head(list))>>
          ELSE <<>>) \o Found(Tail(list), textLower)

LanguageEntry(lang) ==
    [name |-> lang, proficiency |-> "intermediate",
     context |-> "Extracted from PDF"]

\* the fragment returned: a field is set only when something was found
Fragment(contactInfo, educationData, certs, foundLanguages, foundSkills) ==
    LET present ==
          (IF Len(contactInfo) > 0 THEN {"contact"} ELSE {})
          \cup (IF DOMAIN educationData # {} THEN {"superior_education"} ELSE {})
          \cup (IF DOMAIN certs # {} THEN {"certifications"} ELSE {})
          \cup (IF Len(foundLanguages) > 0 THEN {"languages"} ELSE {})
          \cup (IF Len(foundSkills) > 0 THEN {"technical_skills"} ELSE {})
    IN [f \in present |->
          CASE f = "contact" -> contactInfo
            [] f = "superior_education" -> educationData
            [] f = "certifications" -> certs
            [] f = "languages" ->
                 [i \in 1..Len(foundLanguages) |-> LanguageEntry(foundLanguages[i])]
            [] f = "technical_skills" ->
                 [tools_and_technologies |-> foundSkills]]

\* lines 481-561: contact and education extraction, text.split('\n')
ParseBegin ==
    /\ pc = "parse"
    /\ contactMatches' = ContactMatches(text)
    /\ lines' = split(text)
    /\ index' = 1
    /\ inCertSection' = FALSE
    /\ certifications' = EmptyObject
    /\ certLog' = <<>>
    /\ pc' = "scan"
    /\ UNCHANGED <<text, extractedData, mergeVars, storeVars>>

\* a faulty variant of NextIndex: the scan stays on its line
NextIndexStuck(i) == i

\* forEach goes on to the next element
NextIndex(i) == i + 1

\* lines 563-634: the forEach callback on one line
ScanLine ==
    /\ pc = "scan"
    /\ index <= Len(lines)
    /\ LET r == ScanStep(lines, index, inCertSection, certifications)
       IN /\ lines' = r.lines
          /\ inCertSection' = r.section
          /\ certifications' = r.certs
          /\ certLog' = IF r.name = <<>> THEN certLog
                        ELSE Append(certLog,
                               [pass |-> "scan", line |-> index,
                                key |-> DeriveKey(r.name), name |-> r.name])
    /\ index' = NextIndex(index)
    /\ UNCHANGED <<text, contactMatches, extractedData, mergeVars, pc, storeVars>>

\* lines 636-703: the block pass, languages, skills, and the return
ParseEnd ==
    /\ pc = "scan"
    /\ index > Len(lines)
    /\ LET names == BlockNames(matchAll(certSectionRegex, text, TRUE))
           certs == AddAll(certifications, names)
           textLower == toLowerCase(text)
       IN /\ certifications' = certs
          /\ certLog' = certLog \o BlockLog(certifications, names)
          /\ extractedData' =
               Fragment(ContactInfo(contactMatches), EducationData(textLower),
                        certs, Found(programmingLanguages, textLower),
                        Found(skillsKeywords, textLower))
    /\ pc' = "parsed"
    /\ UNCHANGED <<text, lines, index, inCertSection, contactMatches, mergeVars, storeVars>>

(***************************************************************************)
(* mergeProfileData                                                        *)
(***************************************************************************)
\* obj[k] || dflt, for a field that is an array or an object when present
GetOr(obj, k, dflt) == IF Has(obj, k) THEN obj[k] ELSE dflt

\* a faulty variant of MergeContact: it appends the fragment's values unfiltered
MergeContactUnfiltered(existingContacts, contact) == existingContacts \o contact

\* a faulty variant of MergeContact: it puts the new values first
MergeContactNewFirst(existingContacts, contact) ==
    SelectSeq(contact, LAMBDA c : ~Contains(existingContacts, c))
      \o existingContacts

\* lines 720-724
MergeContact(existingContacts, contact) ==
    LET newContacts ==
          SelectSeq(contact, LAMBDA c : ~Contains(existingContacts, c))
    IN existingContacts \o newContacts

\* a faulty variant of MergeLanguages: it compares the names as they are
MergeLanguagesCaseSensitive(existingLanguages, languages) ==
    LET existingLanguageNames ==
          [i \in 1..Len(existingLanguages) |-> existingLanguages[i].name]
    IN existingLanguages
         \o SelectSeq(languages,
                      LAMBDA lang : ~Contains(existingLanguageNames, lang.name))

\* lines 728-735
MergeLanguages(existingLanguages, languages) ==
    LET existingLanguageNames ==
          [i \in 1..Len(existingLanguages) |->
              toLowerCase(existingLanguages[i].name)]
        newLanguages ==
          SelectSeq(languages,
                    LAMBDA lang :
                      ~Contains(existingLanguageNames, toLowerCase(lang.name)))
    IN existingLanguages \o newLanguages

\* a faulty variant of MergeSkills: it takes the fragment's object as it is
MergeSkillsReplaced(existingSkills, technical_skills) == technical_skills

\* lines 753-757
MergeSkills(existingSkills, technical_skills) ==
    Spread(existingSkills, technical_skills)

\* a faulty variant of mergeProfileData: it spreads the fragment over the record
mergeProfileDataSpread(profile, extracted) == Spread(profile, extracted)

\* lines 716-761
mergeProfileData(profile, extracted) ==
    LET m0 == profile
        m1 == IF Has(extracted, "contact")
              THEN Put(m0, "contact",
                       MergeContact(GetOr(m0, "contact", <<>>),
                                    extracted.contact))
              ELSE m0
        m2 == IF Has(extracted, "languages")
              THEN Put(m1, "languages",
                       MergeLanguages(GetOr(m1, "languages", <<>>),
                                      extracted.languages))
              ELSE m1
        m3 == IF Has(extracted, "superior_education")
              THEN Put(m2, "superior_education",
                       Spread(GetOr(m2, "superior_education", EmptyObject),
                              extracted.superior_education))
              ELSE m2
        m4 == IF Has(extracted, "certifications")
              THEN Put(m3, "certifications",
                       Spread(GetOr(m3, "certifications", EmptyObject),
                              extracted.certifications))
              ELSE m3
        m5 == IF Has(extracted, "technical_skills")
              THEN Put(m4, "technical_skills",
                       MergeSkills(GetOr(m4, "technical_skills", EmptyObject),
                                   extracted.technical_skills))
              ELSE m4
    IN m5

\* mergeProfileData applied to the record and the fragment
Merge ==
    /\ pc = "merge"
    /\ mergedProfile' = mergeProfileData(currentProfile, extractedData)
    /\ pc' = "merged"
    /\ UNCHANGED <<parseVars, extractedData, currentProfile, remerged, storeVars>>

\* the same fragment applied to the merged record
Remerge ==
    /\ pc = "merged"
    /\ remerged' = mergeProfileData(mergedProfile, extractedData)
    /\ pc' = "remerged"
    /\ UNCHANGED <<parseVars, extractedData, currentProfile, mergedProfile, storeVars>>

(***************************************************************************)
(* The stored record, its backups, and the two tools that rewrite it       *)
(***************************************************************************)
\* a file's content: absent, text that JSON.parse rejects, or a record's JSON
NoFile == [kind |-> "absent", data |-> EmptyObject]

CorruptFile == [kind |-> "corrupt", data |-> EmptyObject]

\* JSON.stringify(profile, null, 2): read back by JSON.parse as profile
Json(profile) == [kind |-> "json", data |-> profile]

\* lines 706-714: {} when the read or the parse throws
loadCurrentProfile(file) ==
    IF file.kind = "json" THEN file.data ELSE EmptyObject

\* lines 251-268: the default record when the read or the parse throws
loadExistingProfile(file) ==
    IF file.kind = "json" THEN file.data
    ELSE [contact |-> <<>>, facts |-> <<>>, projects |-> EmptyObject,
          languages |-> <<>>, certifications |-> EmptyObject,
          superior_education |-> EmptyObject,
          professional_experience |-> EmptyObject,
          academical_research |-> EmptyObject]

\* the whole line scan, from line i on
RECURSIVE ScanAll(_, _, _, _)
ScanAll(ls, i, section, certs) ==
    IF i > Len(ls) THEN certs
    ELSE LET r == ScanStep(ls, i, section, certs)
         IN ScanAll(r.lines, i + 1, r.section, r.certs)

\* lines 480-704 as one function of the text
parseExtractedText(t) ==
    LET textLower == toLowerCase(t)
        certs == AddAll(ScanAll(split(t), 1, FALSE, EmptyObject),
                        BlockNames(matchAll(certSectionRegex, t, TRUE)))
    IN Fragment(ContactInfo(ContactMatches(t)), EducationData(textLower),
                certs, Found(programmingLanguages, textLower),
                Found(skillsKeywords, textLower))

\* process.env.GITHUB_USERNAME
username == <<"a","l","i","c","e">>

\* a faulty variant of PushNew: it pushes without looking
PushAlways(list, x) == Append(list, x)

\* if (!list.includes(x)) list.push(x)
PushNew(list, x) == IF Contains(list, x) THEN list ELSE Append(list, x)

RECURSIVE PushAllNew(_, _)
PushAllNew(list, xs) ==
    IF Len(xs) = 0 THEN list
    ELSE PushAllNew(PushNew(list, Head(xs)), Tail(xs))

Min(a, b) == IF a < b THEN a ELSE b

\* lines 245-250 on the language names in descending order of bytes
getMostUsedLanguages(languageStats, limit) ==
    SubSeq(languageStats, 1, Min(limit, Len(languageStats)))

\* repo.name.toLowerCase().replace(/[^a-z0-9]/g, '_')
projectKey(repo) == DeriveKey(repo.name)

ProjectEntry(repo) ==
    [type |-> "open_source_project", platform |-> "GitHub",
     language |-> repo.language, url |-> repo.url,
     description |-> repo.description, stars |-> repo.stars,
     forks |-> repo.forks, topics |-> repo.topics, status |-> "published"]

IsShown(repo) == repo.stars > 0 \/ repo.forks > 0 \/ Len(repo.topics) > 0

\* the names the line scan tries to record, in line order
RECURSIVE ScanCandidates(_, _, _)
ScanCandidates(ls, i, section) ==
    IF i > Len(ls) THEN <<>>
    ELSE LET r == ScanStep(ls, i, section, EmptyObject)
         IN (IF r.name = <<>> THEN <<>> ELSE <<r.name>>)
              \o ScanCandidates(r.lines, i + 1, r.section)

\* the names the two passes try to record, in the order they try
certCandidates(t) ==
    ScanCandidates(split(t), 1, FALSE)
      \o BlockNames(matchAll(certSectionRegex, t, TRUE))

\* a faulty variant of AddProject: the repository replaces the stored project
AddProjectOverwrite(projects, repo) ==
    Put(projects, projectKey(repo), ProjectEntry(repo))

\* if (!profile.projects[projectKey]) profile.projects[projectKey] = {...}
AddProject(projects, repo) ==
    IF Has(projects, projectKey(repo)) THEN projects
    ELSE Put(projects, projectKey(repo), ProjectEntry(repo))

RECURSIVE AddProjects(_, _)
AddProjects(projects, repos) ==
    IF Len(repos) = 0 THEN projects
    ELSE AddProjects(IF IsShown(Head(repos))
                     THEN AddProject(projects, Head(repos)) ELSE projects,
                     Tail(repos))

\* the facts of lines 322-334: a number and the words after it
NewFacts(userData, repoAnalysis) ==
    (IF repoAnalysis.totalStats.stars > 0
     THEN <<[n |-> repoAnalysis.totalStats.stars,
             words |-> "stars em repositórios GitHub"]>> ELSE <<>>)
    \o (IF userData.followers > 10
        THEN <<[n |-> userData.followers, words |-> "seguidores no GitHub"]>>
        ELSE <<>>)
    \o (IF userData.public_repos > 5
        THEN <<[n |-> userData.public_repos,
                words |-> "repositórios públicos no GitHub"]>> ELSE <<>>)

\* lines 270-364: the record returned, or threw when a property of an
\* undefined field is read (a stored record need not have every field)
enhanceProfileWithGitHubData(profile, userData, repoAnalysis) ==
    LET githubUrl == <<"h","t","t","p","s",":","/","/","g","i","t","h","u","b",".","c","o","m","/">> \o username
        named == IF ~(Has(profile, "name") /\ profile.name # <<>>)
                    /\ userData.name # <<>>
                 THEN Put(profile, "name", userData.name) ELSE profile
        c1 == PushNew(named.contact, githubUrl)
        c2 == IF userData.blog # <<>> THEN PushNew(c1, userData.blog) ELSE c1
        withStats == Put(Put(named, "contact", c2), "github_stats",
                       [total_repos |-> userData.public_repos,
                        total_stars |-> repoAnalysis.totalStats.stars,
                        total_forks |-> repoAnalysis.totalStats.forks,
                        followers |-> userData.followers,
                        most_used_languages |->
                          getMostUsedLanguages(repoAnalysis.languageStats, 10),
                        notable_repos |->
                          SubSeq(repoAnalysis.notableRepos, 1,
                                 Min(10, Len(repoAnalysis.notableRepos)))])
        skills == IF Has(profile, "technical_skills")
                  THEN profile.technical_skills
                  ELSE [operating_systems |-> <<>>,
                        programming_languages |-> <<>>,
                        areas_of_expertise |-> <<>>]
        topLanguages == getMostUsedLanguages(repoAnalysis.languageStats, 5)
        withSkills == Put(withStats, "technical_skills",
                        IF Len(topLanguages) = 0 THEN skills
                        ELSE Put(skills, "programming_languages",
                               PushAllNew(skills.programming_languages,
                                          topLanguages)))
        newFacts == NewFacts(userData, repoAnalysis)
        shown == SelectSeq(SubSeq(repoAnalysis.notableRepos, 1,
                                  Min(5, Len(repoAnalysis.notableRepos))),
                           IsShown)
        withProjects == IF Len(shown) = 0 THEN withSkills
                        ELSE Put(withSkills, "projects",
                               AddProjects(profile.projects, shown))
        withFacts == IF Len(newFacts) = 0 THEN withProjects
                     ELSE Put(withProjects, "facts",
                            PushAllNew(profile.facts, newFacts))
        threw == \/ ~Has(profile, "contact")
                 \/ Len(topLanguages) > 0
                      /\ ~Has(skills, "programming_languages")
                 \/ Len(shown) > 0 /\ ~Has(profile, "projects")
                 \/ Len(newFacts) > 0 /\ ~Has(profile, "facts")
    IN IF threw THEN [threw |-> TRUE, profile |-> EmptyObject]
       ELSE [threw |-> FALSE, profile |-> withFacts]

\* the processes that run a tool
Runs == {1, 2}

Repo(name, stars, forks) ==
    [name |-> name, description |-> "No description available",
     language |-> "TypeScript", stars |-> stars, forks |-> forks,
     url |-> <<"h","t","t","p","s",":","/","/","g","i","t","h","u","b",".","c","o","m","/","a","l","i","c","e","/">> \o name, topics |-> <<>>]

NoData ==
    [userData |-> [name |-> <<>>, blog |-> <<>>, public_repos |-> 0,
                   followers |-> 0],
     repoAnalysis |-> [languageStats |-> <<>>, notableRepos |-> <<>>,
                       totalStats |-> [stars |-> 0, forks |-> 0]]]

\* a process between runs
IdleRun ==
    [kind |-> "idle", pc |-> "idle", seen |-> 0, text |-> <<>>,
     fragment |-> EmptyObject,
     data |-> NoData, profile |-> EmptyObject, result |-> EmptyObject,
     recovered |-> FALSE, existed |-> FALSE, copied |-> FALSE,
     backedUp |-> NoFile, error |-> "none"]

\* no run under way, none started, no backup made
RunsIdle ==
    /\ backups = EmptyObject
    /\ now = 0
    /\ run = [r \in Runs |-> IdleRun]
    /\ writes = <<>>
    /\ started = 0

StoreIdle == stored = NoFile /\ RunsIdle

\* a faulty variant of AfterCopy: the write follows a failed copy
AfterCopyAlways(copied) == "write"

\* copyFileSync throws inside the try block: the write is skipped
AfterCopy(copied) == IF copied THEN "write" ELSE "failed"

(***************************************************************************)
(* Bounded inputs                                                          *)
(***************************************************************************)
MaxList == 2        \* longest contact and languages list of a merge input

MaxLines == 4       \* most lines of a text with certificates

MaxContactLines == 3    \* most lines of a text with contact data

MaxKeyLines == 3    \* most lines of a text of the key derivation

MaxRuns == 2        \* most runs started in a behaviour of the store

MaxClock == 1       \* latest value of Date.now()

\* lines of a text with headers and structural noise
MaxNoiseLines == 3

\* the sequences over S of length at most n
SeqUpTo(S, n) == UNION { [1..k -> S] : k \in 0..n }

\* the maps from some of the keys to the values
Maps(keys, values) == UNION { [D -> values] : D \in SUBSET keys }

GithubAlice == <<"h","t","t","p","s",":","/","/","g","i","t","h","u","b",".","c","o","m","/","a","l","i","c","e">>

AliceEmail == <<"a","l","i","c","e","@","e","x","a","m","p","l","e",".","c","o","m">>

Contacts == {GithubAlice, AliceEmail}

LanguageEntries ==
    { [name |-> <<"p","y","t","h","o","n">>, proficiency |-> "native",
       context |-> "Curated"],
      LanguageEntry(<<"P","y","t","h","o","n">>),
      LanguageEntry(<<"J","a","v","a">>) }

AwsKey == <<"a","w","s","_","c","e","r","t","i","f","i","e","d">>

AzureKey == <<"m","i","c","r","o","s","o","f","t","_","a","z","u","r","e">>

CertEntries ==
    { [name |-> <<"A","W","S"," ","C","e","r","t","i","f","i","e","d">>, type |-> "professional",
       extracted_from_pdf |-> FALSE],
      CertEntry(<<"A","W","S"," ","C","e","r","t","i","f","i","e","d">>) }

EducationEntries ==
    { [UpeEntry EXCEPT !.status = "completed", !.extracted_from_pdf = FALSE],
      UpeEntry }

SkillLists ==
    { <<<<"D","o","c","k","e","r">>, <<"G","i","t">>>>,
      <<<<"L","i","n","u","x">>>> }

SkillFields ==
    {"operating_systems", "programming_languages", "areas_of_expertise",
     "tools_and_technologies"}

SkillObjects ==
    { s \in Maps(SkillFields, SkillLists) :
        \A f \in DOMAIN s \cap {"operating_systems", "areas_of_expertise"} :
            s[f] = <<<<"L","i","n","u","x">>>> }

\* the categories mergeProfileData has a rule for, and the values tried for each
Categories ==
    {"contact", "languages", "superior_education", "certifications",
     "technical_skills"}

Values(cat) ==
    CASE cat = "contact" -> SeqUpTo(Contacts, MaxList)
      [] cat = "languages" -> SeqUpTo(LanguageEntries, MaxList)
      [] cat = "superior_education" -> Maps({UpeKey, AzureKey}, EducationEntries)
      [] cat = "certifications" -> Maps({AwsKey, AzureKey}, CertEntries)
      [] cat = "technical_skills" -> SkillObjects

\* the fields mergeProfileData has no rule for
FrameFields ==
    {"name", "facts", "projects", "professional_experience",
     "academical_research", "memberships", "github_stats"}

\* a stored record with every field, and a fragment with every field
SampleProfile ==
    [name |-> <<"A","l","i","c","e">>,
     contact |-> <<GithubAlice>>,
     facts |-> <<<<"f","a","c","t">>>>,
     projects |-> EmptyObject,
     languages |-> <<[name |-> <<"p","y","t","h","o","n">>, proficiency |-> "native",
                      context |-> "Curated"]>>,
     certifications |->
       Put(EmptyObject, AwsKey,
           [name |-> <<"A","W","S"," ","C","e","r","t","i","f","i","e","d">>, type |-> "professional",
            extracted_from_pdf |-> FALSE]),
     superior_education |->
       Put(EmptyObject, UpeKey,
           [UpeEntry EXCEPT !.status = "completed", !.extracted_from_pdf = FALSE]),
     professional_experience |-> EmptyObject,
     academical_research |-> EmptyObject,
     memberships |-> EmptyObject,
     technical_skills |-> [operating_systems |-> <<<<"L","i","n","u","x">>>>,
                           tools_and_technologies |-> <<<<"L","i","n","u","x">>>>],
     github_stats |-> [total_repos |-> 3]]

SampleFragment ==
    [name |-> <<"B","o","b">>,
     contact |-> <<GithubAlice, AliceEmail>>,
     facts |-> <<>>,
     projects |-> [p |-> 1],
     languages |-> <<LanguageEntry(<<"P","y","t","h","o","n">>)>>,
     certifications |-> Put(EmptyObject, AwsKey, CertEntry(<<"A","W","S"," ","C","e","r","t","i","f","i","e","d">>)),
     superior_education |-> Put(EmptyObject, UpeKey, UpeEntry),
     professional_experience |-> [e |-> 1],
     academical_research |-> [r |-> 1],
     memberships |-> [m |-> 1],
     technical_skills |-> [tools_and_technologies |-> <<<<"D","o","c","k","e","r">>, <<"G","i","t">>>>],
     github_stats |-> [total_repos |-> 4]]

Restrict(obj, keys) == [k \in DOMAIN obj \cap keys |-> obj[k]]

\* base with category cat absent, or set to one of the values tried for it
Inputs(base) ==
    { Restrict(base, DOMAIN base \ {cat}) : cat \in Categories }
    \cup UNION { { Put(base, cat, v) : v \in Values(cat) } : cat \in Categories }

\* the stored records tried: nothing, or every field, but for one category
Profiles ==
    UNION { Inputs(base) : base \in {EmptyObject, SampleProfile} }

\* the fragments tried: nothing, what a parse sets, or every field, but for
\* one category
Fragments ==
    UNION { Inputs(base) :
              base \in {EmptyObject, Restrict(SampleFragment, Categories),
                         SampleFragment} }

ParseIdle ==
    /\ text = <<>>
    /\ lines = <<>>
    /\ index = 0
    /\ inCertSection = FALSE
    /\ certifications = EmptyObject
    /\ certLog = <<>>
    /\ contactMatches = <<>>

Idle == StoreIdle /\ ParseIdle

InitMerge ==
    /\ Idle
    /\ currentProfile \in Profiles
    /\ extractedData \in Fragments
    /\ mergedProfile = EmptyObject
    /\ remerged = EmptyObject
    /\ pc = "merge"

NextMerge == Merge \/ Remerge

SpecMerge == InitMerge /\ [][NextMerge]_vars

\* the lines the texts with certificates are made of
CertLines ==
    { <<"C","e","r","t","i","f","i","c","a","t","i","o","n","s">>,
      <<"A","W","S"," ","C","e","r","t","i","f","i","e","d"," ","C","l","o","u","d"," ","P","r","a","c","t","i","t","i","o","n","e","r">>,
      <<"E","x","p","e","r","i","e","n","c","e">>,
      <<"R","a","n","d","o","m"," ","C","o","m","p","a","n","y">>,
      <<"M","i","c","r","o","s","o","f","t"," ","A","z","u","r","e">>,
      <<"f","u","n","d","a","m","e","n","t","a","l","s">>,
      <<"C","e","r","t","i","f","i","c","a","ç","õ","e","s">> }

\* the lines the texts of the key derivation are made of
KeyLines ==
    { <<"C","e","r","t","i","f","i","c","a","t","i","o","n","s">>,
      <<"A","W","S"," ","C","e","r","t","i","f","i","e","d","!">>,
      <<"a","w","s"," ","c","e","r","t","i","f","i","e","d">>,
      <<"A","W","S"," "," ","C","e","r","t","i","f","i","e","d">>,
      <<"A","w","s","-","C","e","r","t","i","f","i","e","d">> }

\* the lines the texts with contact data are made of
ContactLines ==
    { <<"a","l","i","c","e","@","e","x","a","m","p","l","e",".","c","o","m">>,
      <<"h","t","t","p","s",":","/","/","g","i","t","h","u","b",".","c","o","m","/","a","l","i","c","e">>,
      <<"s","e","e"," ","g","i","t","h","u","b",".","c","o","m","/","a","l","i","c","e",","," ","l","i","n","k","e","d","i","n",".","c","o","m","/","i","n","/","a","l","i","c","e">>,
      <<"0","8","1","-","5","5","5","-","1","2","3","4">>,
      <<"+","5","5","8","1","9","9","9","9","9","8","8","8","8"," ","s","i","n","c","e"," ","2","0","2","4">>,
      <<"P","y","t","h","o","n"," ","c","o","u","r","s","e">>,
      <<"2","0","2","4">>,
      <<"r","o","o","m"," ","1","2">> }

\* the texts of at most n lines of a catalogue ("" is the text of no line)
Texts(catalogue, n) == { JoinLines(ls) : ls \in SeqUpTo(catalogue, n) }

InitParse(texts) ==
    /\ StoreIdle
    /\ text \in texts
    /\ lines = <<>>
    /\ index = 0
    /\ inCertSection = FALSE
    /\ certifications = EmptyObject
    /\ certLog = <<>>
    /\ contactMatches = <<>>
    /\ extractedData = EmptyObject
    /\ currentProfile = EmptyObject
    /\ mergedProfile = EmptyObject
    /\ remerged = EmptyObject
    /\ pc = "parse"

NextParse == ParseBegin \/ ScanLine \/ ParseEnd

\* the texts of at most n lines of a catalogue that use no line twice
TextsOfDistinctLines(catalogue, n) ==
    { JoinLines(ls) :
        ls \in { s \in SeqUpTo(catalogue, n) :
                   \A i, j \in 1..Len(s) : i # j => s[i] # s[j] } }

\* texts with certificates: a repeated line is tried by the texts of SpecKey
InitCert == InitParse(TextsOfDistinctLines(CertLines, MaxLines))

SpecCert == InitCert /\ [][NextParse]_vars

InitKey == InitParse(Texts(KeyLines, MaxKeyLines))

SpecKey == InitKey /\ [][NextParse]_vars

InitContact == InitParse(Texts(ContactLines, MaxContactLines))

SpecContact == InitContact /\ [][NextParse]_vars

\* the call moves on: from the start to the scan, from a line to the next,
\* from the scan to the return
Advance ==
    /\ pc \in {"parse", "scan"}
    /\ pc' \in {"scan", "parsed"}
    /\ index' \in {1, index, index + 1}

\* parseExtractedText is synchronous code: while it has not returned, the
\* engine executes it, so its position does not stay where it is for ever
SpecContactFair == SpecContact /\ WF_<<pc, index>>(Advance)

\* the lines the texts with headers and structural noise are made of
NoiseLines ==
    { <<"C","e","r","t","i","f","i","c","a","ç","õ","e","s">>,
      <<"P","a","g","e"," ","1"," ","o","f"," ","2">>,
      <<"1","2"," ","m","e","s","e","s">>,
      <<"C","e","r","t","i","f","i","c","a","t","i","o","n","s">>,
      <<"E","d","u","c","a","t","i","o","n"," ","a","n","d"," ","C","e","r","t","i","f","i","c","a","t","i","o","n">>,
      <<"R","a","n","d","o","m"," ","C","o","m","p","a","n","y">>,
      <<"A","W","S">>,
      <<"c","e","r","t","i","f","i","c","a","t","i","o","n">> }

InitNoise == InitParse(TextsOfDistinctLines(NoiseLines, MaxNoiseLines))

SpecNoise == InitNoise /\ [][NextParse]_vars

(***************************************************************************)
(* The runs of the two tools on the stored record                          *)
(***************************************************************************)
\* the documents tried
StoreTexts ==
    { JoinLines(<<<<"a","l","i","c","e","@","e","x","a","m","p","l","e",".","c","o","m">>, <<"P","y","t","h","o","n"," ","c","o","u","r","s","e">>>>),
      JoinLines(<<<<"h","t","t","p","s",":","/","/","g","i","t","h","u","b",".","c","o","m","/","a","l","i","c","e">>, <<"J","a","v","a"," ","a","n","d"," ","p","y","t","h","o","n">>>>),
      JoinLines(<<<<"a","w","s"," ","c","e","r","t","i","f","i","e","d"," ","d","e","v","e","l","o","p","e","r">>, <<"C","e","r","t","i","f","i","c","a","ç","õ","e","s">>,
                  <<"A","W","S"," ","C","e","r","t","i","f","i","e","d"," ","D","e","v","e","l","o","p","e","r">>>>) }

\* the API answers tried
GitData ==
    { [userData |-> [name |-> <<"A","l","i","c","e">>, blog |-> <<>>, public_repos |-> 6,
                     followers |-> 11],
       repoAnalysis |-> [languageStats |-> <<<<"T","y","p","e","S","c","r","i","p","t">>>>,
                         notableRepos |-> <<Repo(<<"M","y","-","A","p","p">>, 1, 0)>>,
                         totalStats |-> [stars |-> 1, forks |-> 0]]],
      [userData |-> [name |-> <<>>, blog |-> <<"h","t","t","p","s",":","/","/","g","i","t","h","u","b",".","c","o","m","/","a","l","i","c","e">>,
                     public_repos |-> 2, followers |-> 0],
       repoAnalysis |-> [languageStats |-> <<>>,
                         notableRepos |-> <<Repo(<<"m","y"," ","a","p","p">>, 0, 1),
                                            Repo(<<"m","y","_","a","p","p">>, 0, 2)>>,
                         totalStats |-> [stars |-> 0, forks |-> 3]]] }

\* a curated stored record
StoredSample ==
    [name |-> <<"A","l","i","c","e">>,
     contact |-> <<GithubAlice>>,
     facts |-> <<>>,
     projects |-> Put(EmptyObject, <<"m","y","_","a","p","p">>, [type |-> "curated"]),
     languages |-> <<[name |-> <<"p","y","t","h","o","n">>, proficiency |-> "native",
                      context |-> "curated"]>>,
     certifications |-> EmptyObject,
     technical_skills |-> [programming_languages |-> <<<<"P","y","t","h","o","n">>>>]]

\* parseExtractedText on each of the documents tried
fragmentOf == [t \in StoreTexts |-> parseExtractedText(t)]

\* the certificate candidates of each of the documents tried
candidatesOf == [t \in StoreTexts |-> certCandidates(t)]

\* what profile.json holds before the first run
InitialFiles == {NoFile, CorruptFile, Json(StoredSample)}

InitStore ==
    /\ ParseIdle
    /\ RunsIdle
    /\ stored \in InitialFiles
    /\ currentProfile = EmptyObject
    /\ extractedData = EmptyObject
    /\ mergedProfile = EmptyObject
    /\ remerged = EmptyObject
    /\ pc = "store"

Running == pc = "store"

\* a new run takes the first process that is free
Free(r) ==
    /\ Running
    /\ run[r].pc = "idle"
    /\ \A q \in Runs : q < r => run[q].pc # "idle"
    /\ started < MaxRuns

\* lines 778-791: a run of extractAndMerge begins: the PDF is read and parsed
StartPdf(r) ==
    /\ Free(r)
    /\ \E t \in StoreTexts, readable \in BOOLEAN :
         run' = [run EXCEPT ![r] =
                   IF readable
                   THEN [IdleRun EXCEPT !.kind = "pdf", !.pc = "load",
                                        !.text = t,
                                        !.fragment = fragmentOf[t]]
                   ELSE [IdleRun EXCEPT !.kind = "pdf", !.pc = "failed",
                                        !.error = "pdf"]]
    /\ started' = started + 1
    /\ UNCHANGED <<parseVars, extractedData, mergeVars, pc, stored, backups,
                   now, writes>>

\* lines 793-797: loadCurrentProfile reads the file, mergeProfileData merges
LoadPdf(r) ==
    /\ run[r].kind = "pdf"
    /\ run[r].pc = "load"
    /\ run' = [run EXCEPT
                 ![r].profile = loadCurrentProfile(stored),
                 ![r].seen = Len(writes),
                 ![r].recovered = stored.kind # "json",
                 ![r].result = mergeProfileData(loadCurrentProfile(stored),
                                                run[r].fragment),
                 ![r].pc = "backup"]
    /\ UNCHANGED <<parseVars, extractedData, mergeVars, pc, stored, backups,
                   now, writes, started>>

\* lines 366-371: a run of collectAndUpdateProfile begins with the load
StartGithub(r) ==
    /\ Free(r)
    /\ run' = [run EXCEPT ![r] =
                 [IdleRun EXCEPT !.kind = "github", !.pc = "fetch",
                                 !.profile = loadExistingProfile(stored),
                                 !.seen = Len(writes),
                                 !.recovered = stored.kind # "json"]]
    /\ started' = started + 1
    /\ UNCHANGED <<parseVars, extractedData, mergeVars, pc, stored, backups,
                   now, writes>>

\* lines 373-389: the API answers (or fails), the record is enhanced
FetchGithub(r) ==
    /\ run[r].kind = "github"
    /\ run[r].pc = "fetch"
    /\ \E d \in GitData, answered \in BOOLEAN :
         LET e == enhanceProfileWithGitHubData(run[r].profile, d.userData,
                                               d.repoAnalysis)
         IN run' = [run EXCEPT ![r] =
                      IF ~answered
                      THEN [@ EXCEPT !.pc = "failed", !.error = "api"]
                      ELSE IF e.threw
                      THEN [@ EXCEPT !.pc = "failed", !.error = "type",
                                     !.data = d]
                      ELSE [@ EXCEPT !.pc = "exists", !.data = d,
                                     !.result = e.profile]]
    /\ UNCHANGED <<parseVars, extractedData, mergeVars, pc, stored, backups,
                   now, writes, started>>

\* line 393: if (fs.existsSync(this.profilePath))
ExistsGithub(r) ==
    /\ run[r].kind = "github"
    /\ run[r].pc = "exists"
    /\ run' = [run EXCEPT ![r].existed = stored.kind # "absent",
                          ![r].pc = IF stored.kind # "absent" THEN "backup"
                                    ELSE "write"]
    /\ UNCHANGED <<parseVars, extractedData, mergeVars, pc, stored, backups,
                   now, writes, started>>

\* lines 764-767 and 391-394: backupPath ends in Date.now(), which is the
\* latest value or a later one; copyFileSync(profilePath, backupPath) throws
\* when the file is absent or the disk refuses
CopyBackup(r) ==
    /\ run[r].pc = "backup"
    /\ \E disk \in BOOLEAN, timestamp \in now..Min(now + 1, MaxClock) :
         LET copied == disk /\ stored.kind # "absent"
         IN /\ now' = timestamp
            /\ backups' = IF copied THEN Put(backups, timestamp, stored)
                          ELSE backups
            /\ run' = [run EXCEPT
                         ![r].copied = copied,
                         ![r].backedUp = IF copied THEN stored ELSE NoFile,
                         ![r].error = IF copied THEN "none"
                                      ELSE IF stored.kind = "absent"
                                      THEN "enoent" ELSE "io",
                         ![r].pc = AfterCopy(copied)]
    /\ UNCHANGED <<parseVars, extractedData, mergeVars, pc, stored, writes,
                   started>>

\* a faulty variant of WrittenRecord: the run merges into the record the file
\* holds at the time of the write
WrittenRecordFresh(r) ==
    IF run[r].kind = "pdf"
    THEN mergeProfileData(loadCurrentProfile(stored), run[r].fragment)
    ELSE LET e == enhanceProfileWithGitHubData(loadExistingProfile(stored),
                                               run[r].data.userData,
                                               run[r].data.repoAnalysis)
         IN IF e.threw THEN run[r].result ELSE e.profile

\* the record handed to writeFileSync: the one computed from what the run
\* loaded (mergedProfile at 797-800, enhancedProfile at 396-398)
WrittenRecord(r) == run[r].result

\* lines 769 and 398: writeFileSync(profilePath, JSON.stringify(...))
WriteProfile(r) ==
    /\ run[r].pc = "write"
    /\ stored' = Json(WrittenRecord(r))
    /\ writes' = Append(writes,
                    [run |-> r, kind |-> run[r].kind, replaced |-> stored,
                     seen |-> run[r].seen, loaded |-> run[r].profile,
                     fragment |-> run[r].fragment, data |-> run[r].data,
                     copied |-> run[r].copied, backup |-> run[r].backedUp,
                     error |-> run[r].error])
    /\ run' = [run EXCEPT ![r].pc = "done"]
    /\ UNCHANGED <<parseVars, extractedData, mergeVars, pc, backups, now,
                   started>>

\* the process exits
Finish(r) ==
    /\ run[r].pc \in {"done", "failed"}
    /\ run' = [run EXCEPT ![r] = IdleRun]
    /\ UNCHANGED <<parseVars, extractedData, mergeVars, pc, stored, backups,
                   now, writes, started>>

NextStore ==
    \E r \in Runs :
         \/ StartPdf(r)
         \/ LoadPdf(r)
         \/ StartGithub(r)
         \/ FetchGithub(r)
         \/ ExistsGithub(r)
         \/ CopyBackup(r)
         \/ WriteProfile(r)
         \/ Finish(r)

SpecStore == InitStore /\ [][NextStore]_vars

(***************************************************************************)
(* Properties of mergeProfileData, under SpecMerge                         *)
(***************************************************************************)
\* the n-th smallest element of a set of numbers
Nth(S, n) == CHOOSE i \in S : Cardinality({ j \in S : j < i }) = n - 1

\* t is list with exactly the elements at the positions keep, in list order
IsSelection(t, list, keep) ==
    /\ Len(t) = Cardinality(keep)
    /\ \A n \in 1..Len(t) : t[n] = list[Nth(keep, n)]

HasRepeat(list) ==
    \E i, j \in 1..Len(list) : i < j /\ list[i] = list[j]

\* C1: merging the same fragment a second time changes nothing, in any
\* category, also when the fragment's own lists repeat a value.
MergeIdempotent == pc = "remerged" => remerged = mergedProfile

MergeIdempotentWitness ==
    /\ pc = "remerged"
    /\ Has(extractedData, "contact")
    /\ HasRepeat(extractedData.contact)
    /\ mergedProfile # currentProfile
    /\ remerged = mergedProfile

\* C2: an entry the record already holds under a key of certifications or
\* superior_education is kept when the fragment holds an entry under that key.
OverwriteAvoidance ==
    pc = "merged" =>
      \A f \in {"certifications", "superior_education"} :
        (Has(currentProfile, f) /\ Has(extractedData, f)) =>
          \A k \in DOMAIN currentProfile[f] \cap DOMAIN extractedData[f] :
            mergedProfile[f][k] = currentProfile[f][k]

\* C3: the merged contact list is the current list, then the fragment's values
\* that are not in the current list, in fragment order.
ContactMergeAppendsNew ==
    (pc = "merged" /\ Has(extractedData, "contact")) =>
      LET cur  == GetOr(currentProfile, "contact", <<>>)
          frag == extractedData.contact
          m    == mergedProfile.contact
          keep == { i \in 1..Len(frag) : frag[i] \notin Range(cur) }
      IN /\ Len(m) >= Len(cur)
         /\ SubSeq(m, 1, Len(cur)) = cur
         /\ IsSelection(SubSeq(m, Len(cur) + 1, Len(m)), frag, keep)
         /\ (cur = <<GithubAlice>> /\ frag = <<GithubAlice, AliceEmail>>)
              => m = <<GithubAlice, AliceEmail>>

ContactMergeWitness ==
    /\ pc = "merged"
    /\ Has(currentProfile, "contact")
    /\ currentProfile.contact = <<GithubAlice>>
    /\ Has(extractedData, "contact")
    /\ extractedData.contact = <<GithubAlice, AliceEmail>>
    /\ mergedProfile.contact = <<GithubAlice, AliceEmail>>

\* C4: the merged languages list is the current list unchanged, then the
\* fragment's entries whose lower-cased name no current entry has.
LanguagesMergeAppendsUnseen ==
    (pc = "merged" /\ Has(extractedData, "languages")) =>
      LET cur  == GetOr(currentProfile, "languages", <<>>)
          frag == extractedData.languages
          m    == mergedProfile.languages
          seen == { toLowerCase(cur[i].name) : i \in 1..Len(cur) }
          keep == { i \in 1..Len(frag) : toLowerCase(frag[i].name) \notin seen }
      IN /\ Len(m) >= Len(cur)
         /\ SubSeq(m, 1, Len(cur)) = cur
         /\ IsSelection(SubSeq(m, Len(cur) + 1, Len(m)), frag, keep)

LanguagesMergeWitness ==
    /\ pc = "merged"
    /\ Has(currentProfile, "languages")
    /\ Has(extractedData, "languages")
    /\ \E i \in 1..Len(currentProfile.languages) :
         \E j \in 1..Len(extractedData.languages) :
           /\ currentProfile.languages[i].name = <<"p","y","t","h","o","n">>
           /\ extractedData.languages[j].name = <<"P","y","t","h","o","n">>
           /\ currentProfile.languages[i].proficiency
                # extractedData.languages[j].proficiency
    /\ Len(mergedProfile.languages) > Len(currentProfile.languages)

\* C5: a field the fragment does not carry, and a field the merge has no rule
\* for, is in the merged record what it is in the current record; merging the
\* empty fragment gives the current record.
AbsenceIsNoOp ==
    pc = "merged" =>
      /\ \A f \in (Categories \cup FrameFields) \ DOMAIN extractedData :
           /\ Has(mergedProfile, f) = Has(currentProfile, f)
           /\ Has(currentProfile, f) => mergedProfile[f] = currentProfile[f]
      /\ \A f \in FrameFields :
           /\ Has(mergedProfile, f) = Has(currentProfile, f)
           /\ Has(currentProfile, f) => mergedProfile[f] = currentProfile[f]
      /\ DOMAIN extractedData = {} => mergedProfile = currentProfile

AbsenceWitness ==
    /\ pc = "merged"
    /\ Has(currentProfile, "contact")
    /\ ~Has(extractedData, "contact")
    /\ Has(extractedData, "languages")
    /\ Has(currentProfile, "facts")
    /\ Has(extractedData, "facts")
    /\ extractedData.facts # currentProfile.facts
    /\ mergedProfile.facts = currentProfile.facts

\* C6: each sub-list of technical_skills the fragment carries replaces the
\* current one; each sub-list it does not carry stays as it is.
SkillsShallowMerge ==
    (pc = "merged" /\ Has(extractedData, "technical_skills")) =>
      LET cur  == GetOr(currentProfile, "technical_skills", EmptyObject)
          frag == extractedData.technical_skills
          m    == mergedProfile.technical_skills
      IN \A sub \in SkillFields :
           IF Has(frag, sub) THEN Has(m, sub) /\ m[sub] = frag[sub]
           ELSE /\ Has(m, sub) = Has(cur, sub)
                /\ Has(cur, sub) => m[sub] = cur[sub]

SkillsMergeWitness ==
    /\ pc = "merged"
    /\ Has(currentProfile, "technical_skills")
    /\ Has(extractedData, "technical_skills")
    /\ Has(currentProfile.technical_skills, "operating_systems")
    /\ ~Has(extractedData.technical_skills, "operating_systems")
    /\ Has(currentProfile.technical_skills, "tools_and_technologies")
    /\ Has(extractedData.technical_skills, "tools_and_technologies")
    /\ currentProfile.technical_skills.tools_and_technologies
         # extractedData.technical_skills.tools_and_technologies
    /\ mergedProfile.technical_skills.tools_and_technologies
         = extractedData.technical_skills.tools_and_technologies

(***************************************************************************)
(* Properties of parseExtractedText                                        *)
(***************************************************************************)
Alnum(c) == LowerCh(c) \in az \cup Digit

\* the letters and digits of a name, lower-cased, each marked when it starts
\* a new word: what is left of a name once case and punctuation are dropped
WordsOf(name) ==
    LET marked == [i \in 1..Len(name) |->
                     <<LowerCh(name[i]), Alnum(name[i]),
                       i > 1 /\ ~Alnum(name[i - 1])>>]
        kept   == SelectSeq(marked, LAMBDA m : m[2])
    IN [i \in 1..Len(kept) |-> <<kept[i][1], i > 1 /\ kept[i][3]>>]

\* C7: names that differ only in letter case and punctuation derive the same
\* key, so only the first of them is recorded.
VariantsCollide ==
    \A i, j \in 1..Len(certLog) :
      WordsOf(certLog[i].name) = WordsOf(certLog[j].name)
        => certLog[i].key = certLog[j].key

\* what the scan saw of line j
LowerLine(j) == trim(toLowerCase(lines[j]))

OriginalLine(j) == trim(lines[j])

SeenHeader(j) == Len(LowerLine(j)) >= 3 /\ IsHeaderLine(LowerLine(j))

SeenExit(j) ==
    /\ Len(LowerLine(j)) >= 3
    /\ ~IsHeaderLine(LowerLine(j))
    /\ IsExitLine(LowerLine(j), OriginalLine(j))

\* an exit signal at or before line k, and no header after it up to line k
ExitSeen(k) ==
    \E j \in 1..k : SeenExit(j) /\ \A h \in (j + 1)..k : ~SeenHeader(h)

NoSignal(k) ==
    /\ ~HasCertKeyword(LowerLine(k))
    /\ ~HasProvider(LowerLine(k))
    /\ ~HasCoursePattern(LowerLine(k))

CertNames == { certifications[k].name : k \in DOMAIN certifications }

BoundaryExample ==
    JoinLines(<<<<"C","e","r","t","i","f","i","c","a","t","i","o","n","s">>,
                <<"A","W","S"," ","C","e","r","t","i","f","i","e","d"," ","C","l","o","u","d"," ","P","r","a","c","t","i","t","i","o","n","e","r">>,
                <<"E","x","p","e","r","i","e","n","c","e">>,
                <<"R","a","n","d","o","m"," ","C","o","m","p","a","n","y">>>>)

\* C8: once the line scan has seen an exit signal, it records no later line
\* that has no keyword, provider or course pattern; the example text gives
\* "AWS Certified Cloud Practitioner" and not "Random Company".
SectionBoundary ==
    /\ \A n \in 1..Len(certLog) :
         certLog[n].pass = "scan"
           => ~(ExitSeen(certLog[n].line) /\ NoSignal(certLog[n].line))
    /\ (pc = "parsed" /\ text = BoundaryExample)
         => /\ <<"A","W","S"," ","C","e","r","t","i","f","i","e","d"," ","C","l","o","u","d"," ","P","r","a","c","t","i","t","i","o","n","e","r">> \in CertNames
            /\ <<"R","a","n","d","o","m"," ","C","o","m","p","a","n","y">> \notin CertNames
            /\ \A n \in 1..Len(certLog) : certLog[n].pass = "scan"

SectionBoundaryWitness ==
    /\ pc = "parsed"
    /\ text = BoundaryExample
    /\ ExitSeen(4)
    /\ NoSignal(4)
    /\ CertNames = {<<"A","W","S"," ","C","e","r","t","i","f","i","e","d"," ","C","l","o","u","d"," ","P","r","a","c","t","i","t","i","o","n","e","r">>}

\* line j was blanked by the look-ahead
Consumed(j) == lines[j] = <<>> /\ split(text)[j] # <<>>

OccursOnce(j) ==
    \A h \in 1..Len(lines) : h # j => trim(split(text)[h]) # trim(split(text)[j])

\* C9: a candidate line and its continuation line give a single certificate,
\* named by the two lines joined by a space: neither the continuation line nor
\* the candidate line alone is recorded as a certificate of its own.
ContinuationMerged ==
    pc = "parsed" =>
      \A k \in 1..(Len(lines) - 1) :
        (Consumed(k + 1) /\ OccursOnce(k + 1) /\ OccursOnce(k)) =>
          /\ trim(split(text)[k]) \o <<" ">> \o trim(split(text)[k + 1])
               \in CertNames
          /\ trim(split(text)[k + 1]) \notin CertNames
          /\ trim(split(text)[k]) \notin CertNames

\* the first position of x in arr
FirstAt(arr, x) ==
    CHOOSE n \in 1..Len(arr) : arr[n] = x /\ \A m \in 1..(n - 1) : arr[m] # x

\* C10: the contact list holds each matched value once, in the order of the
\* first occurrences in the concatenated match list.
ContactDedup ==
    pc = "parsed" =>
      LET contact == GetOr(extractedData, "contact", <<>>)
      IN /\ ~HasRepeat(contact)
         /\ Range(contact) = Range(contactMatches)
         /\ \A i, j \in 1..Len(contact) :
              i < j => FirstAt(contactMatches, contact[i])
                         < FirstAt(contactMatches, contact[j])

ContactDedupWitness ==
    /\ pc = "parsed"
    /\ Has(extractedData, "contact")
    /\ HasRepeat(contactMatches)
    /\ Len(extractedData.contact) >= 2
    /\ Cardinality({ n \in 1..Len(contactMatches) :
                       contactMatches[n] = GithubAlice }) >= 2
    /\ Cardinality({ n \in 1..Len(extractedData.contact) :
                       extractedData.contact[n] = GithubAlice }) = 1

\* an entry made of the characters a phone match is made of
PhoneLike(e) ==
    \A n \in 1..Len(e) : e[n] \in Digit \cup {"+", "(", ")", "-", "."} \cup Space

IsYear(e) ==
    /\ Len(e) = 4
    /\ \A n \in 1..4 : e[n] \in Digit
    /\ <<e[1], e[2]>> \in {<<"1", "9">>, <<"2", "0">>}

\* C11: no entry of the contact list is a 4-digit year 1900-2099, and every
\* phone entry has 10 to 15 digits, so none has 2 or 4.
PhoneRejection ==
    pc = "parsed" =>
      LET contact == GetOr(extractedData, "contact", <<>>)
      IN \A n \in 1..Len(contact) :
           /\ ~IsYear(contact[n])
           /\ PhoneLike(contact[n]) =>
                /\ Len(Digits(contact[n])) >= 10
                /\ Len(Digits(contact[n])) <= 15

PhoneRejectionWitness ==
    /\ pc = "parsed"
    /\ Contains(matchAll(phoneRegex, text, FALSE), <<"2","0","2","4">>)
    /\ Contains(matchAll(phoneRegex, text, FALSE), <<"1","2">>)
    /\ Has(extractedData, "contact")
    /\ Contains(extractedData.contact, <<"0","8","1","-","5","5","5","-","1","2","3","4">>)
    /\ ~Contains(extractedData.contact, <<"2","0","2","4">>)
    /\ ~Contains(extractedData.contact, <<"1","2">>)

(***************************************************************************)
(* Properties of the runs on the stored record, under SpecStore            *)
(***************************************************************************)
\* C12: a run that found profile.json absent or unparseable goes on with an
\* empty default record and completes: it ends in an error only when the API
\* or the disk fails.
MissingRecordNotFatal ==
    \A r \in Runs :
      (run[r].recovered /\ run[r].pc = "failed")
        => run[r].error \in {"api", "io"}

\* C13: a run whose backup copy failed ends in an error and writes nothing:
\* no write of profile.json comes from a run with a failed copy.
BackupFailureStopsWrite ==
    /\ \A r \in Runs :
         run[r].error \in {"io", "enoent"}
           => run[r].pc = "failed" /\ ~run[r].copied
    /\ \A i \in 1..Len(writes) : writes[i].error = "none"

BackupFailureWitness ==
    /\ \E r \in Runs : run[r].pc = "failed" /\ run[r].error = "io"
    /\ stored = Json(StoredSample)
    /\ writes = <<>>
    /\ backups = EmptyObject

\* C14: every write that replaces an existing profile.json follows a
\* completed copy by the same run, and the copy holds what the write replaces.
BackupPrecedesOverwrite ==
    \A i \in 1..Len(writes) :
      writes[i].replaced.kind # "absent"
        => writes[i].copied /\ writes[i].backup = writes[i].replaced

(***************************************************************************)
(* Properties of parseExtractedText: termination and the section state     *)
(***************************************************************************)
\* the steps the call has yet to take: one per line not yet visited, and the
\* steps before and after the scan
StepsLeft ==
    CASE pc = "parse" -> Len(split(text)) + 2
      [] pc = "scan" -> Len(lines) + 2 - index
      [] OTHER -> 0

\* C15: parseExtractedText terminates on every text, the empty one and one
\* with no match included; the scan goes through the lines one by one, never
\* past the last, and the result is a fragment, possibly empty.
ParseTerminates ==
    /\ [](pc = "scan" => index \in 1..(Len(lines) + 1))
    /\ [][StepsLeft' < StepsLeft]_vars
    /\ <>(pc = "parsed" /\ DOMAIN extractedData \subseteq Categories)

ParseTerminatesWitness ==
    /\ pc = "parsed"
    /\ text # <<>>
    /\ index = Len(lines) + 1
    /\ extractedData = EmptyObject

\* no line of the text has a header keyword of the line scan
NoScanHeader ==
    \A j \in 1..Len(split(text)) :
      ~IsHeaderLine(trim(toLowerCase(split(text)[j])))

\* the block-level pattern finds no header in the text
NoBlockHeader == matchAll(certSectionRegex, text, TRUE) = <<>>

\* the n-th recorded candidate came from a line of the scan that has a
\* keyword, a provider or the course pattern with title case
FromSignal(n) ==
    /\ certLog[n].pass = "scan"
    /\ HasSignal(LowerLine(certLog[n].line), OriginalLine(certLog[n].line))

NoiseLine(j) == IsUnwanted(trim(split(text)[j]))

\* C17: a line that matches one of the noise patterns is not a certificate of
\* the output, whichever pass saw it.
NoiseNeverRecorded ==
    pc = "parsed" =>
      \A j \in 1..Len(split(text)) :
        NoiseLine(j) => trim(split(text)[j]) \notin CertNames

\* line j of the text has at least 3 characters and a header keyword
HeaderLine(j) ==
    /\ Len(trim(split(text)[j])) >= 3
    /\ IsHeaderLine(trim(toLowerCase(split(text)[j])))

\* the scan has just gone past a header line
PastHeader == pc = "scan" /\ index > 1 /\ HeaderLine(index - 1)

\* C18: when the scan has gone past a line of at least 3 characters with a
\* header keyword the section state is true, and no such line is a
\* certificate of the output, with or without an exit keyword in it.
HeaderConsumed ==
    /\ PastHeader => inCertSection = TRUE
    /\ pc = "parsed" =>
         \A j \in 1..Len(split(text)) :
           HeaderLine(j) => trim(split(text)[j]) \notin CertNames

(***************************************************************************)
(* Properties of the keyed insertions, under SpecStore                     *)
(***************************************************************************)
\* the first of the names that has the key k
FirstNamed(names, k) ==
    names[CHOOSE n \in 1..Len(names) :
            /\ DeriveKey(names[n]) = k
            /\ \A m \in 1..(n - 1) : DeriveKey(names[m]) # k]

\* the repositories the enhancement tries to add, in order
ShownRepos(d) ==
    SelectSeq(SubSeq(d.repoAnalysis.notableRepos, 1,
                     Min(5, Len(d.repoAnalysis.notableRepos))), IsShown)

FirstRepo(repos, k) ==
    repos[CHOOSE n \in 1..Len(repos) :
            /\ projectKey(repos[n]) = k
            /\ \A m \in 1..(n - 1) : projectKey(repos[m]) # k]

\* the run r has parsed its document
Parsed(r) == run[r].kind = "pdf" /\ run[r].pc = "load"

\* the run r has enhanced the record it loaded
Enhanced(r) == run[r].kind = "github" /\ run[r].pc = "exists"

\* C19: the certificate of a key is the first candidate of that key, in the
\* order the line scan and then the block pass try them; the enhancement keeps
\* every project the record had, and a project it adds is the first
\* repository of that key.
FirstWriterWins ==
    \A r \in Runs :
      /\ Parsed(r) =>
           LET names == candidatesOf[run[r].text]
               certs == GetOr(run[r].fragment, "certifications", EmptyObject)
           IN /\ DOMAIN certs = { DeriveKey(names[n]) : n \in 1..Len(names) }
              /\ \A k \in DOMAIN certs :
                   certs[k] = CertEntry(FirstNamed(names, k))
      /\ Enhanced(r) =>
           LET repos == ShownRepos(run[r].data)
               had == GetOr(run[r].profile, "projects", EmptyObject)
               projects == GetOr(run[r].result, "projects", EmptyObject)
           IN /\ DOMAIN projects
                   = DOMAIN had \cup { projectKey(repos[n]) : n \in 1..Len(repos) }
              /\ \A k \in DOMAIN had : projects[k] = had[k]
              /\ \A k \in DOMAIN projects \ DOMAIN had :
                   projects[k] = ProjectEntry(FirstRepo(repos, k))

\* a later certificate candidate of a taken key with another name, a
\* repository of a key the record has, and two repositories of one new key
FirstWriterWinsWitness ==
    /\ \E r \in Runs :
         /\ Parsed(r)
         /\ LET names == candidatesOf[run[r].text]
            IN \E m, n \in 1..Len(names) :
                 /\ m < n
                 /\ DeriveKey(names[m]) = DeriveKey(names[n])
                 /\ names[m] # names[n]
    /\ \E r \in Runs :
         /\ Enhanced(r)
         /\ LET repos == ShownRepos(run[r].data)
            IN \/ \E n \in 1..Len(repos) :
                    /\ Has(run[r].profile.projects, projectKey(repos[n]))
                    /\ run[r].profile.projects[projectKey(repos[n])]
                         # ProjectEntry(repos[n])
               \/ \E m, n \in 1..Len(repos) :
                    /\ m < n
                    /\ projectKey(repos[m]) = projectKey(repos[n])
                    /\ repos[m] # repos[n]
                    /\ ~Has(run[r].profile.projects, projectKey(repos[n]))

\* two entries of the languages list have the same name, letter case aside
SameLanguageTwice(languages) ==
    \E i, j \in 1..Len(languages) :
      i < j /\ toLowerCase(languages[i].name) = toLowerCase(languages[j].name)

\* the lists of a record: no string twice in contact, no name twice in languages
CleanLists(profile) ==
    /\ Has(profile, "contact") => ~HasRepeat(profile.contact)
    /\ Has(profile, "languages") => ~SameLanguageTwice(profile.languages)

\* C20: profile.json starts absent, unreadable or with a record whose lists
\* are clean; after any runs of the two tools the record stored has no
\* string twice in its contact list and no two languages of the same
\* lower-cased name.
StoredListsClean ==
    /\ \A f \in InitialFiles : f.kind = "json" => CleanLists(f.data)
    /\ stored.kind = "json" => CleanLists(stored.data)

\* a PDF run and a GitHub run have completed one after the other, each on a
\* source that repeats what the record held
StoredListsCleanWitness ==
    /\ Len(writes) = 2
    /\ writes[1].kind # writes[2].kind
    /\ writes[1].replaced = Json(StoredSample)
    /\ writes[2].replaced.kind = "json"
    /\ writes[2].replaced # writes[1].replaced
    /\ \A r \in Runs : run[r].pc \in {"idle", "done"}
    /\ stored.kind = "json"
    /\ Len(stored.data.contact) = 2
    /\ Len(stored.data.languages) = 2

(***************************************************************************)
(* Properties of overlapping runs, under SpecStore                         *)
(***************************************************************************)
\* the fields the tools add to and never take from
AppendFields ==
    {"contact", "facts", "languages", "certifications", "superior_education",
     "projects", "programming_languages"}

\* what a record holds in a field: the strings of a list, the lower-cased
\* names of the languages, the keys of a map
ItemsOf(profile, f) ==
    CASE f \in {"contact", "facts"} -> Range(GetOr(profile, f, <<>>))
      [] f = "languages" ->
           { toLowerCase(l.name) : l \in Range(GetOr(profile, f, <<>>)) }
      [] f \in {"certifications", "superior_education", "projects"} ->
           DOMAIN GetOr(profile, f, EmptyObject)
      [] OTHER ->
           Range(GetOr(GetOr(profile, "technical_skills", EmptyObject), f, <<>>))

\* the record in the file after the j-th write
After(j) == IF j < Len(writes) THEN writes[j + 1].replaced ELSE stored

\* the run of the j-th write loaded the record before an earlier write
Overlapped(j) == writes[j].seen < j - 1

\* the enhancement of the default record, for each of the API answers tried
broughtBy ==
    [d \in GitData |->
       enhanceProfileWithGitHubData(loadExistingProfile(NoFile), d.userData,
                                    d.repoAnalysis).profile]

\* what the source of the run of write w brings by itself
SourceOf(w) ==
    IF w.kind = "pdf" THEN w.fragment
    ELSE broughtBy[w.data]

\* after an overlapped write, what is left of the record it replaced is what
\* the run had loaded or what its own source brings
OverlapLoses(j, f) ==
    Overlapped(j) =>
      ItemsOf(After(j).data, f) \cap ItemsOf(writes[j].replaced.data, f)
        \subseteq ItemsOf(writes[j].loaded, f) \cup ItemsOf(SourceOf(writes[j]), f)

\* a write that is not overlapped keeps what the record it replaced held
SequentialKeeps(j, f) ==
    ~Overlapped(j) =>
      ItemsOf(writes[j].replaced.data, f) \subseteq ItemsOf(After(j).data, f)

\* the latest write, if any: every write is the latest one when it is made,
\* and the record after it stays until the next
LastWrite == {Len(writes)} \ {0}

\* C21 as stated: a write of a run that loaded before an earlier write leaves
\* out what that write added, and runs that do not overlap leave a record
\* with the additions of both, in every list and map of the record.
ReadMergeWriteAllFields ==
    \A j \in LastWrite :
      \A f \in AppendFields \cup {"tools_and_technologies"} :
        OverlapLoses(j, f) /\ SequentialKeeps(j, f)

\* C21, amended: the same for the fields the tools append to (contact,
\* facts, languages, programming languages, and the keys of certifications,
\* education and projects); the sub-list tools_and_technologies is replaced
\* by a later PDF run, overlapping or not.
ReadMergeWriteUnguarded ==
    \A j \in LastWrite :
      \A f \in AppendFields : OverlapLoses(j, f) /\ SequentialKeeps(j, f)

\* a lost update: a PDF run and a GitHub run both loaded the record before
\* either wrote, and the record written last lacks what the first write added
LostUpdateWitness ==
    /\ Len(writes) = 2
    /\ writes[1].kind # writes[2].kind
    /\ writes[1].seen = 0
    /\ writes[2].seen = 0
    /\ writes[1].replaced.kind = "json"
    /\ stored.kind = "json"
    /\ \E f \in AppendFields :
         \E x \in ItemsOf(writes[2].replaced.data, f) :
           /\ x \notin ItemsOf(writes[1].replaced.data, f)
           /\ x \notin ItemsOf(stored.data, f)

====
